---- MODULE Spec2Model ----
(***************************************************************************)
(* Model of src-tauri/libvips_compat.c: three old-name symbols supplied    *)
(* to a generated binding layer.                                           *)
(*                                                                         *)
(*   vips_target_finish(target)  forwards to the extern vips_target_end.   *)
(*   vips_rawsave_fd(in, fd, ...) discards its arguments and returns -1.   *)
(*   vips_cache(in, out, ...)     discards its arguments and returns -1.   *)
(*                                                                         *)
(* Caller threads invoke the three symbols in any interleaving.  The       *)
(* native library behind vips_target_end is external to the file: it is    *)
(* the environment, and its outcome (the flush succeeds, the flush fails,  *)
(* the process faults on a pointer that is no live target) is chosen       *)
(* nondeterministically.                                                   *)
(***************************************************************************)
EXTENDS Integers, Sequences, FiniteSets, TLC

(* ------------------------------ bounds -------------------------------- *)

\* Total number of shim calls the caller threads start in one behaviour.
MaxCalls == 2
\* Longest buffer of unflushed bytes a target starts with.
MaxBuf == 1
\* Longest variadic tail a caller passes to a stub.
MaxTail == 1

(* ------------------------------ inputs -------------------------------- *)

Threads == {"th1", "th2"}

\* VipsTarget* values a caller can pass: the null pointer, two live targets
\* and a pointer to no live target.
ValidTargets == {"tA", "tB"}
TargetPtrs == {"NULL", "tDangling"} \cup ValidTargets

\* VipsImage* values: the null pointer and a live image.
ValidImages == {"imA"}
ImagePtrs == {"NULL"} \cup ValidImages

\* File descriptors: an invalid one and an open one.
OpenFds == {3}
FdValues == {-1} \cup OpenFds

\* VipsImage** values: the null pointer and the address of a caller's slot.
OutSlots == {"slot"}
OutPtrs == {"NULL"} \cup OutSlots

Bytes == {1}
TailValues == {7}

RECURSIVE SeqsUpTo(_, _)
SeqsUpTo(S, n) ==
    IF n = 0 THEN {<<>>}
    ELSE LET shorter == SeqsUpTo(S, n - 1)
         IN shorter \cup {Append(s, x) : s \in {q \in shorter : Len(q) = n - 1}, x \in S}

Tails == SeqsUpTo(TailValues, MaxTail)
Buffers == SeqsUpTo(Bytes, MaxBuf)

(* --------------------------- program state ---------------------------- *)

VARIABLES
    pc,        \* per thread: where the thread is in the shim
    frame,     \* per thread: the parameters of the shim function it is in
    callee,    \* per thread: the calls the current shim invocation has made
    obs,       \* per thread: what the caller got back from its last call
    lib,       \* the native library: targets, error count, process fault
    ref,       \* the library had the caller called vips_target_end directly
    fds,       \* the process's file descriptors
    images,    \* the image objects
    slots,     \* the callers' VipsImage* output slots
    shimData,  \* the shim's file-scope storage
    hist       \* per shim symbol: how many calls to it have been started

vars == <<pc, frame, callee, obs, lib, ref, fds, images, slots, shimData, hist>>

ShimSymbols == {"vips_target_finish", "vips_rawsave_fd", "vips_cache"}
StubSymbols == {"vips_rawsave_fd", "vips_cache"}

NoFrame == [fn |-> "none"]
NoObs == [fn |-> "none"]

\* The status both stubs return (lines 34 and 44).
Sentinel == -1

TargetStates == [buf : Buffers, sink : {<<>>}, ended : BOOLEAN]

\* The library states a behaviour starts in: target tA in any state, target
\* tB open with a full buffer, no error logged, the process running.
FullBuffer == CHOOSE b \in Buffers : Len(b) = MaxBuf

LibStates ==
    [targets : {f \in [ValidTargets -> TargetStates] :
                    f["tB"] = [buf |-> FullBuffer, sink |-> <<>>, ended |-> FALSE]},
     errors : {0}, crashed : {FALSE}]

Init ==
    /\ pc = [t \in Threads |-> "idle"]
    /\ frame = [t \in Threads |-> NoFrame]
    /\ callee = [t \in Threads |-> <<>>]
    /\ obs = [t \in Threads |-> NoObs]
    /\ lib \in LibStates
    /\ ref = lib
    /\ fds = [f \in OpenFds |-> [open |-> TRUE, written |-> <<>>]]
    /\ images = [i \in ValidImages |-> [pixels |-> <<1, 1>>, refs |-> 1]]
    /\ slots \in [OutSlots -> ImagePtrs]
    /\ shimData = {}
    /\ hist = [f \in ShimSymbols |-> 0]

Alive == ~lib.crashed

Started == hist["vips_target_finish"] + hist["vips_rawsave_fd"] + hist["vips_cache"]

\* Another thread is inside a shim function.
Overlapped(t) == \E u \in Threads \ {t} : pc[u] # "idle"

(* ------------------------- the native library ------------------------- *)

\* What the environment can make of one run of vips_target_end: on a live
\* target that no other thread is ending, the flush succeeds or fails; on a
\* pointer that is no live target, or in a race on the same target, the
\* behaviour is undefined and a fault is possible as well.
Outcomes(target, racing) ==
    IF target \in ValidTargets /\ ~racing
    THEN {"ok", "fail"}
    ELSE {"ok", "fail", "crash"}

\* The effect of vips_target_end(target) on the library, under outcome o.
TargetEndEffect(L, target, o) ==
    IF L.crashed THEN L
    ELSE IF o = "crash" THEN [L EXCEPT !.crashed = TRUE]
    ELSE IF target \notin ValidTargets
         THEN IF o = "fail" THEN [L EXCEPT !.errors = @ + 1] ELSE L
    ELSE IF L.targets[target].ended THEN L
    ELSE IF o = "fail" THEN [L EXCEPT !.errors = @ + 1]
    ELSE [L EXCEPT !.targets[target] =
              [buf |-> <<>>, sink |-> @.sink \o @.buf, ended |-> TRUE]]

(* ------------------------------ callers ------------------------------- *)

\* A caller thread calls vips_target_finish(target).
CallFinish(t, target) ==
    /\ Alive /\ pc[t] = "idle" /\ Started < MaxCalls
    /\ pc' = [pc EXCEPT ![t] = "finish"]
    /\ frame' = [frame EXCEPT ![t] = [fn |-> "vips_target_finish", target |-> target]]
    /\ callee' = [callee EXCEPT ![t] = <<>>]
    /\ obs' = [obs EXCEPT ![t] = NoObs]
    /\ hist' = [hist EXCEPT !["vips_target_finish"] = @ + 1]
    /\ UNCHANGED <<lib, ref, fds, images, slots, shimData>>

\* A caller thread calls vips_rawsave_fd(in, fd, va...).
CallRawsave(t, in, fd, va) ==
    /\ Alive /\ pc[t] = "idle" /\ Started < MaxCalls
    /\ pc' = [pc EXCEPT ![t] = "rawsave"]
    /\ frame' = [frame EXCEPT ![t] =
                    [fn |-> "vips_rawsave_fd", in |-> in, fd |-> fd, va |-> va, ap |-> 0]]
    /\ callee' = [callee EXCEPT ![t] = <<>>]
    /\ obs' = [obs EXCEPT ![t] = NoObs]
    /\ hist' = [hist EXCEPT !["vips_rawsave_fd"] = @ + 1]
    /\ UNCHANGED <<lib, ref, fds, images, slots, shimData>>

\* A caller thread calls vips_cache(in, out, va...).
CallCache(t, in, out, va) ==
    /\ Alive /\ pc[t] = "idle" /\ Started < MaxCalls
    /\ pc' = [pc EXCEPT ![t] = "cache"]
    /\ frame' = [frame EXCEPT ![t] =
                    [fn |-> "vips_cache", in |-> in, out |-> out, va |-> va, ap |-> 0]]
    /\ callee' = [callee EXCEPT ![t] = <<>>]
    /\ obs' = [obs EXCEPT ![t] = NoObs]
    /\ hist' = [hist EXCEPT !["vips_cache"] = @ + 1]
    /\ UNCHANGED <<lib, ref, fds, images, slots, shimData>>

(* ------------------------- vips_target_finish ------------------------- *)

\* A forwarder that validates: it returns without forwarding a null pointer.
vips_target_finish_checks_null(t) ==
    /\ Alive /\ pc[t] = "finish"
    /\ IF frame[t].target = "NULL"
       THEN /\ pc' = [pc EXCEPT ![t] = "finish_ret"]
            /\ callee' = callee
       ELSE /\ pc' = [pc EXCEPT ![t] = "end"]
            /\ callee' = [callee EXCEPT ![t] =
                             Append(@, [fn |-> "vips_target_end",
                                        arg |-> frame[t].target,
                                        returned |-> FALSE])]
    /\ UNCHANGED <<frame, obs, lib, ref, fds, images, slots, shimData, hist>>

\* A forwarder that passes the wrong pointer on.
vips_target_finish_wrong_pointer(t) ==
    /\ Alive /\ pc[t] = "finish"
    /\ pc' = [pc EXCEPT ![t] = "end"]
    /\ callee' = [callee EXCEPT ![t] =
                     Append(@, [fn |-> "vips_target_end",
                                arg |-> "NULL",
                                returned |-> FALSE])]
    /\ UNCHANGED <<frame, obs, lib, ref, fds, images, slots, shimData, hist>>

\* A forwarder that keeps the target pointer in a file-scope variable.
vips_target_finish_retains(t) ==
    /\ Alive /\ pc[t] = "finish"
    /\ pc' = [pc EXCEPT ![t] = "end"]
    /\ callee' = [callee EXCEPT ![t] =
                     Append(@, [fn |-> "vips_target_end",
                                arg |-> frame[t].target,
                                returned |-> FALSE])]
    /\ shimData' = shimData \cup {frame[t].target}
    /\ UNCHANGED <<frame, obs, lib, ref, fds, images, slots, hist>>

\* Line 24: the body calls vips_target_end with its own parameter.
vips_target_finish(t) ==
    /\ Alive /\ pc[t] = "finish"
    /\ pc' = [pc EXCEPT ![t] = "end"]
    /\ callee' = [callee EXCEPT ![t] =
                     Append(@, [fn |-> "vips_target_end",
                                arg |-> frame[t].target,
                                returned |-> FALSE])]
    /\ UNCHANGED <<frame, obs, lib, ref, fds, images, slots, shimData, hist>>

\* The library runs vips_target_end on the pointer the shim passed; ref
\* takes the same outcome on the pointer the caller passed.
vips_target_end(t) ==
    /\ Alive /\ pc[t] = "end"
    /\ LET arg == callee[t][Len(callee[t])].arg
           racing == \E u \in Threads \ {t} :
                         /\ pc[u] = "end"
                         /\ callee[u][Len(callee[u])].arg = arg
       IN \E o \in Outcomes(arg, racing) :
              /\ lib' = TargetEndEffect(lib, arg, o)
              /\ ref' = TargetEndEffect(ref, frame[t].target, o)
    /\ pc' = [pc EXCEPT ![t] = "finish_ret"]
    /\ callee' = [callee EXCEPT ![t][Len(callee[t])].returned = TRUE]
    /\ UNCHANGED <<frame, obs, fds, images, slots, shimData, hist>>

\* A forwarder that swallows the library's error state before returning.
vips_target_finish_return_clears_error(t) ==
    /\ Alive /\ pc[t] = "finish_ret"
    /\ pc' = [pc EXCEPT ![t] = "idle"]
    /\ obs' = [obs EXCEPT ![t] =
                  [fn |-> "vips_target_finish", target |-> frame[t].target,
                   ret |-> "void", callees |-> callee[t],
                   concurrent |-> Overlapped(t)]]
    /\ frame' = [frame EXCEPT ![t] = NoFrame]
    /\ callee' = [callee EXCEPT ![t] = <<>>]
    /\ lib' = [lib EXCEPT !.errors = 0]
    /\ UNCHANGED <<ref, fds, images, slots, shimData, hist>>

\* Line 25: the function returns (void) to its caller.
vips_target_finish_return(t) ==
    /\ Alive /\ pc[t] = "finish_ret"
    /\ pc' = [pc EXCEPT ![t] = "idle"]
    /\ obs' = [obs EXCEPT ![t] =
                  [fn |-> "vips_target_finish", target |-> frame[t].target,
                   ret |-> "void", callees |-> callee[t],
                   concurrent |-> Overlapped(t)]]
    /\ frame' = [frame EXCEPT ![t] = NoFrame]
    /\ callee' = [callee EXCEPT ![t] = <<>>]
    /\ UNCHANGED <<lib, ref, fds, images, slots, shimData, hist>>

(* --------------------------- vips_rawsave_fd -------------------------- *)

\* A stub that writes a byte to the descriptor before failing.
vips_rawsave_fd_writes(t) ==
    /\ Alive /\ pc[t] = "rawsave"
    /\ pc' = [pc EXCEPT ![t] = "idle"]
    /\ obs' = [obs EXCEPT ![t] =
                  [fn |-> "vips_rawsave_fd", in |-> frame[t].in, fd |-> frame[t].fd,
                   va |-> frame[t].va, ap |-> frame[t].ap,
                   ret |-> Sentinel, callees |-> callee[t],
                   concurrent |-> Overlapped(t)]]
    /\ frame' = [frame EXCEPT ![t] = NoFrame]
    /\ callee' = [callee EXCEPT ![t] = <<>>]
    /\ fds' = IF frame[t].fd \in DOMAIN fds
              THEN [fds EXCEPT ![frame[t].fd].written = Append(@, 0)]
              ELSE fds
    /\ UNCHANGED <<lib, ref, images, slots, shimData, hist>>

\* A stub that serialises callers: it waits while another thread is inside
\* the shim.
vips_rawsave_fd_locked(t) ==
    /\ Alive /\ pc[t] = "rawsave" /\ ~Overlapped(t)
    /\ pc' = [pc EXCEPT ![t] = "idle"]
    /\ obs' = [obs EXCEPT ![t] =
                  [fn |-> "vips_rawsave_fd", in |-> frame[t].in, fd |-> frame[t].fd,
                   va |-> frame[t].va, ap |-> frame[t].ap,
                   ret |-> Sentinel, callees |-> callee[t],
                   concurrent |-> Overlapped(t)]]
    /\ frame' = [frame EXCEPT ![t] = NoFrame]
    /\ callee' = [callee EXCEPT ![t] = <<>>]
    /\ UNCHANGED <<lib, ref, fds, images, slots, shimData, hist>>

\* A stub that fails only the first time it is called and reports success
\* afterwards.
vips_rawsave_fd_counts(t) ==
    /\ Alive /\ pc[t] = "rawsave"
    /\ pc' = [pc EXCEPT ![t] = "idle"]
    /\ obs' = [obs EXCEPT ![t] =
                  [fn |-> "vips_rawsave_fd", in |-> frame[t].in, fd |-> frame[t].fd,
                   va |-> frame[t].va, ap |-> frame[t].ap,
                   ret |-> IF hist["vips_rawsave_fd"] > 1 THEN 0 ELSE Sentinel,
                   callees |-> callee[t],
                   concurrent |-> Overlapped(t)]]
    /\ frame' = [frame EXCEPT ![t] = NoFrame]
    /\ callee' = [callee EXCEPT ![t] = <<>>]
    /\ UNCHANGED <<lib, ref, fds, images, slots, shimData, hist>>

\* Lines 33-34: (void)in; (void)fd; return -1;
vips_rawsave_fd(t) ==
    /\ Alive /\ pc[t] = "rawsave"
    /\ pc' = [pc EXCEPT ![t] = "idle"]
    /\ obs' = [obs EXCEPT ![t] =
                  [fn |-> "vips_rawsave_fd", in |-> frame[t].in, fd |-> frame[t].fd,
                   va |-> frame[t].va, ap |-> frame[t].ap,
                   ret |-> Sentinel, callees |-> callee[t],
                   concurrent |-> Overlapped(t)]]
    /\ frame' = [frame EXCEPT ![t] = NoFrame]
    /\ callee' = [callee EXCEPT ![t] = <<>>]
    /\ UNCHANGED <<lib, ref, fds, images, slots, shimData, hist>>

(* ----------------------------- vips_cache ----------------------------- *)

\* A stub that stores the input image through the out pointer.
vips_cache_stores(t) ==
    /\ Alive /\ pc[t] = "cache"
    /\ pc' = [pc EXCEPT ![t] = "idle"]
    /\ obs' = [obs EXCEPT ![t] =
                  [fn |-> "vips_cache", in |-> frame[t].in, out |-> frame[t].out,
                   va |-> frame[t].va, ap |-> frame[t].ap,
                   ret |-> Sentinel, callees |-> callee[t],
                   concurrent |-> Overlapped(t)]]
    /\ frame' = [frame EXCEPT ![t] = NoFrame]
    /\ callee' = [callee EXCEPT ![t] = <<>>]
    /\ slots' = IF frame[t].out \in DOMAIN slots
                THEN [slots EXCEPT ![frame[t].out] = frame[t].in]
                ELSE slots
    /\ UNCHANGED <<lib, ref, fds, images, shimData, hist>>

\* A stub that reads its variadic tail and returns the first argument of it.
vips_cache_reads_tail(t) ==
    /\ Alive /\ pc[t] = "cache"
    /\ pc' = [pc EXCEPT ![t] = "idle"]
    /\ obs' = [obs EXCEPT ![t] =
                  [fn |-> "vips_cache", in |-> frame[t].in, out |-> frame[t].out,
                   va |-> frame[t].va, ap |-> 1,
                   ret |-> IF Len(frame[t].va) > 0 THEN frame[t].va[1] ELSE Sentinel,
                   callees |-> callee[t],
                   concurrent |-> Overlapped(t)]]
    /\ frame' = [frame EXCEPT ![t] = NoFrame]
    /\ callee' = [callee EXCEPT ![t] = <<>>]
    /\ UNCHANGED <<lib, ref, fds, images, slots, shimData, hist>>

\* Lines 43-44: (void)in; (void)out; return -1;
vips_cache(t) ==
    /\ Alive /\ pc[t] = "cache"
    /\ pc' = [pc EXCEPT ![t] = "idle"]
    /\ obs' = [obs EXCEPT ![t] =
                  [fn |-> "vips_cache", in |-> frame[t].in, out |-> frame[t].out,
                   va |-> frame[t].va, ap |-> frame[t].ap,
                   ret |-> Sentinel, callees |-> callee[t],
                   concurrent |-> Overlapped(t)]]
    /\ frame' = [frame EXCEPT ![t] = NoFrame]
    /\ callee' = [callee EXCEPT ![t] = <<>>]
    /\ UNCHANGED <<lib, ref, fds, images, slots, shimData, hist>>

(* --------------------------- specification ---------------------------- *)

Next ==
    \/ \E t \in Threads, target \in TargetPtrs : CallFinish(t, target)
    \/ \E t \in Threads, in \in ImagePtrs, fd \in FdValues, va \in Tails :
           CallRawsave(t, in, fd, va)
    \/ \E t \in Threads, in \in ImagePtrs, out \in OutPtrs, va \in Tails :
           CallCache(t, in, out, va)
    \/ \E t \in Threads : vips_target_finish(t)
    \/ \E t \in Threads : vips_target_end(t)
    \/ \E t \in Threads : vips_target_finish_return(t)
    \/ \E t \in Threads : vips_rawsave_fd(t)
    \/ \E t \in Threads : vips_cache(t)

Spec == Init /\ [][Next]_vars

(* ------------------------------- claims ------------------------------- *)

\* The one call a completed vips_target_finish(target) has made.
ForwardedCall(target) ==
    <<[fn |-> "vips_target_end", arg |-> target, returned |-> TRUE]>>

FinishDone(t) == obs[t].fn = "vips_target_finish"
RawsaveDone(t) == obs[t].fn = "vips_rawsave_fd"
CacheDone(t) == obs[t].fn = "vips_cache"
StubDone(t) == obs[t].fn \in StubSymbols

\* Thread t takes the step that returns from the function at position p.
Leaves(t, p) == pc[t] = p /\ pc'[t] # p

\* C1: calling vips_target_finish(H) leaves the library in the state a direct
\* call of vips_target_end(H) leaves it in (bytes flushed, sink closed, error
\* state), from the same starting state and under the same outcome of the
\* flush, and returns what the direct call returns: nothing (void), once the
\* forwarded call has run.
C1_FinishEquivalentToEnd ==
    /\ lib = ref
    /\ \A t \in Threads :
           FinishDone(t) =>
               /\ obs[t].ret = "void"
               /\ Len(obs[t].callees) = 1
               /\ obs[t].callees[1].returned

\* A finish call on a live open target has returned and the target's buffered
\* bytes have reached the sink, which is closed.
C1_Witness ==
    \E t \in Threads :
        /\ FinishDone(t)
        /\ obs[t].target \in ValidTargets
        /\ lib.targets[obs[t].target].ended
        /\ lib.targets[obs[t].target].sink # <<>>

\* C2: vips_rawsave_fd returns -1 for every image handle, descriptor and
\* variadic tail, and no step changes a file descriptor or an image object.
C2_RawsaveFails ==
    [][/\ fds' = fds
       /\ images' = images
       /\ \A t \in Threads :
              Leaves(t, "rawsave") =>
                  /\ pc'[t] = "idle"
                  /\ obs'[t].fn = "vips_rawsave_fd"
                  /\ obs'[t].in = frame[t].in
                  /\ obs'[t].fd = frame[t].fd
                  /\ obs'[t].va = frame[t].va
                  /\ obs'[t].ret = Sentinel
                  /\ obs'[t].ret < 0]_vars

\* vips_rawsave_fd has returned from a call on a live image and an open
\* descriptor with an empty variadic tail.
C2_Witness ==
    \E t \in Threads :
        /\ RawsaveDone(t)
        /\ obs[t].in \in ValidImages
        /\ obs[t].fd \in OpenFds
        /\ obs[t].va = <<>>
        /\ obs[t].ret = Sentinel

\* C3: vips_cache returns -1 for every image handle, out pointer (null
\* included) and variadic tail, and every output slot holds after the call the
\* value it held before.
C3_CacheFails ==
    [][/\ slots' = slots
       /\ \A t \in Threads :
              Leaves(t, "cache") =>
                  /\ pc'[t] = "idle"
                  /\ obs'[t].fn = "vips_cache"
                  /\ obs'[t].in = frame[t].in
                  /\ obs'[t].out = frame[t].out
                  /\ obs'[t].va = frame[t].va
                  /\ obs'[t].ret = Sentinel
                  /\ obs'[t].ret < 0]_vars

\* vips_cache has returned from a call whose out pointer is the address of a
\* slot that holds another value than the input image.
C3_Witness ==
    \E t \in Threads :
        /\ CacheDone(t)
        /\ obs[t].out \in OutSlots
        /\ slots[obs[t].out] # obs[t].in
        /\ obs[t].ret = Sentinel

\* C4: the shim keeps no handle: its file-scope storage stays empty and a
\* thread that is in no shim function has no frame; no image object ever
\* changes, and a target changes only in the step in which vips_target_end
\* runs on the pointer the caller handed to vips_target_finish, and then only
\* that target.
C4_HandlesPassThrough ==
    /\ [](/\ shimData = {}
          /\ \A t \in Threads :
                 pc[t] = "idle" => frame[t].fn = "none" /\ callee[t] = <<>>)
    /\ [][/\ images' = images
          /\ lib'.targets # lib.targets =>
                 \E t \in Threads :
                     /\ pc[t] = "end"
                     /\ pc'[t] = "finish_ret"
                     /\ frame[t].target \in ValidTargets
                     /\ \A h \in ValidTargets \ {frame[t].target} :
                            lib'.targets[h] = lib.targets[h]]_vars

\* A finish call has ended a live target and a stub call has returned; both
\* threads are back in the caller.
C4_Witness ==
    /\ \A t \in Threads : pc[t] = "idle"
    /\ \E t \in Threads :
           /\ FinishDone(t)
           /\ obs[t].target \in ValidTargets
           /\ lib.targets[obs[t].target].ended
           /\ lib.targets[obs[t].target].sink # <<>>
    /\ \E t \in Threads : StubDone(t)

\* C5: the library's error state (errors logged, process fault) changes only
\* in the step in which vips_target_end runs, and there it changes exactly as
\* vips_target_end on the caller's pointer changes it; no step of the shim
\* adds, clears or rewrites an error.
C5_FailuresPropagate ==
    [][(lib'.errors # lib.errors \/ lib'.crashed # lib.crashed) =>
           \E t \in Threads :
               /\ pc[t] = "end"
               /\ pc'[t] = "finish_ret"
               /\ \E o \in {"ok", "fail", "crash"} :
                      lib' = TargetEndEffect(lib, frame[t].target, o)]_vars

\* A finish call whose vips_target_end failed has returned, and the error it
\* logged is there for the caller to see.
C5_Witness ==
    \E t \in Threads :
        /\ FinishDone(t)
        /\ obs[t].target \in ValidTargets
        /\ lib.errors > 0
        /\ ~lib.targets[obs[t].target].ended

\* What the shim does not own: the library, descriptors, images, slots.
SharedUnchanged == UNCHANGED <<lib, ref, fds, images, slots, shimData>>

\* C6: whatever the other threads are doing, a thread inside a stub can take
\* its step at once, that step returns -1 and leaves every shared object as it
\* is, and a thread inside vips_target_finish is never held up by the shim: it
\* can make the forwarded call and can return from it; a stub call that
\* returned while another thread was inside the shim returned -1.
C6_NoCoordinationNeeded ==
    \A t \in Threads :
        /\ (Alive /\ pc[t] = "rawsave") =>
               ENABLED (vips_rawsave_fd(t) /\ SharedUnchanged /\ obs'[t].ret = Sentinel)
        /\ (Alive /\ pc[t] = "cache") =>
               ENABLED (vips_cache(t) /\ SharedUnchanged /\ obs'[t].ret = Sentinel)
        /\ (Alive /\ pc[t] = "finish") => ENABLED vips_target_finish(t)
        /\ (Alive /\ pc[t] = "finish_ret") => ENABLED vips_target_finish_return(t)
        /\ (StubDone(t) /\ obs[t].concurrent) => obs[t].ret = Sentinel

\* A stub call returned while the other thread was inside the shim, and that
\* thread is now inside vips_target_end.
C6_Witness ==
    \E t \in Threads, u \in Threads :
        /\ t # u
        /\ StubDone(t)
        /\ obs[t].concurrent
        /\ obs[t].ret = Sentinel
        /\ pc[u] = "end"

\* C8: for every pointer value, null and invalid included, one call of
\* vips_target_finish makes exactly one call, to vips_target_end, with that
\* pointer; it makes it before anything else and returns once that call has
\* returned.
C8_ForwardsOnce ==
    \A t \in Threads :
        /\ pc[t] = "finish" => callee[t] = <<>>
        /\ pc[t] = "end" =>
               callee[t] = <<[fn |-> "vips_target_end", arg |-> frame[t].target,
                              returned |-> FALSE]>>
        /\ pc[t] = "finish_ret" => callee[t] = ForwardedCall(frame[t].target)
        /\ FinishDone(t) => obs[t].callees = ForwardedCall(obs[t].target)

\* A finish call on the null pointer has returned, and so has one on a
\* pointer to no live target.
C8_Witness ==
    \E t \in Threads, u \in Threads :
        /\ FinishDone(t) /\ obs[t].target = "NULL"
        /\ FinishDone(u) /\ obs[u].target = "tDangling"

\* C9: any two completed stub calls, whatever their arguments and variadic
\* tails, returned the same value, -1, and read nothing of the tail; and as
\* long as only stubs have been called, nothing global has changed: no error
\* is logged, the process runs, no target is ended, no byte has reached a sink
\* or a descriptor.
C9_SentinelIgnoresArguments ==
    /\ \A t \in Threads, u \in Threads :
           (StubDone(t) /\ StubDone(u)) =>
               /\ obs[t].ret = obs[u].ret
               /\ obs[t].ret = Sentinel
               /\ obs[t].ap = 0
    /\ hist["vips_target_finish"] = 0 =>
           /\ lib.errors = 0
           /\ ~lib.crashed
           /\ \A h \in ValidTargets : lib.targets[h].sink = <<>>
           /\ lib.targets["tB"].buf = FullBuffer /\ ~lib.targets["tB"].ended
           /\ \A f \in DOMAIN fds : fds[f].written = <<>>
           /\ shimData = {}

\* Two stub calls with different arguments have returned: vips_rawsave_fd with
\* an empty tail and vips_cache with a tail.
C9_Witness ==
    \E t \in Threads, u \in Threads :
        /\ RawsaveDone(t) /\ obs[t].va = <<>>
        /\ CacheDone(u) /\ obs[u].va # <<>>
        /\ obs[t].in # obs[u].in

\* C10: the shim has no state of its own and every call is one step that
\* returns: whatever was called before, a stub's step takes the thread back to
\* its caller with -1, without a fault and without touching the shim's
\* storage, and the step of vips_target_finish makes the forwarded call.
C10_StatelessSingleStep ==
    [][/\ shimData' = shimData
       /\ \A t \in Threads :
              /\ (Leaves(t, "rawsave") \/ Leaves(t, "cache")) =>
                     /\ pc'[t] = "idle"
                     /\ frame'[t].fn = "none"
                     /\ obs'[t].ret = Sentinel
                     /\ lib' = lib
              /\ Leaves(t, "finish") =>
                     /\ pc'[t] = "end"
                     /\ Len(callee'[t]) = 1
                     /\ callee'[t][1].fn = "vips_target_end"]_vars

\* The second call to vips_rawsave_fd has returned, as the first did, with -1.
C10_Witness ==
    /\ hist["vips_rawsave_fd"] = 2
    /\ \A t \in Threads : pc[t] = "idle"
    /\ \E t \in Threads : RawsaveDone(t) /\ obs[t].ret = Sentinel

====
